---- MODULE Spec2Model ----
(***************************************************************************)
(* Model of decode_response.go of gosaml2: the pipeline that decodes a     *)
(* SAML response, validates the envelope signature, decrypts encrypted     *)
(* assertions, enforces the assertion signatures, unmarshals the tree and  *)
(* runs the semantic validation.                                           *)
(*                                                                         *)
(* The external collaborators (base64, flate, etree, goxmldsig, the key    *)
(* store, encoding/xml) are modelled by their outcome on a structured      *)
(* input: every element of the document carries what the collaborator      *)
(* answers for it (signature valid / missing / invalid, decryptable or     *)
(* not, ...).  The control flow between those answers is the code's.       *)
(***************************************************************************)
EXTENDS Integers, Sequences, FiniteSets

\* Largest number of child elements of the response element in an input.
MaxKids == 2

\* Largest number of child elements of a response that arrives deflated.
MaxDeflatedKids == 1

----------------------------------------------------------------------------
(* Errors.  nil is NoErr; every other error is a record with its message.  *)

NoErr == [msg |-> "nil"]

Err(m) == [msg |-> m]

\* dsig.ErrMissingSignature, the one error value the code compares against.
ErrMissingSignature == Err("dsig.ErrMissingSignature")

\* Any other failure of dsig's Validate (digest, certificate, malformed...).
ErrInvalidSignature == Err("dsig: invalid signature")

ACS == "https://sp.example/acs"

OtherURL == "https://evil.example/acs"

DestinationAttr == "Destination"

ReasonUnsupported == "unsupported"

ErrInvalidValue(key, reason, expected, actual) ==
    [msg |-> "ErrInvalidValue", Key |-> key, Reason |-> reason,
     Expected |-> expected, Actual |-> actual]

NilResponse == [isNil |-> TRUE]

NilElement == [isNil |-> TRUE]

----------------------------------------------------------------------------
(* The document.  An element below the response element is a record        *)
(*   id      its position in the parsed document (its identity)            *)
(*   tag     Assertion / EncryptedAssertion (in the SAML assertion         *)
(*           namespace) or Other                                           *)
(*   st      "orig" (parsed from the input), "decrypted" (parsed from a    *)
(*           decrypted plaintext) or "validated" (returned by Validate)    *)
(*   sig     what dsig's Validate answers for a detached copy of it        *)
(*   detach  whether etreeutils.NSDetatch succeeds on it                   *)
(*   nested  tag of a descendant element it contains, or "none"            *)
(*   enc     for an EncryptedAssertion: how far decryption gets            *)
(*   plain   for enc = "ok": what Validate answers for the plaintext       *)

AssertionTag == "Assertion"

EncryptedAssertionTag == "EncryptedAssertion"

OtherTag == "Other"

Sigs == {"valid", "missing", "invalid"}

Elem(t, s, d, n, e, p) ==
    [tag |-> t, sig |-> s, detach |-> d, nested |-> n, enc |-> e, plain |-> p]

AssertionShapes ==
    {Elem(AssertionTag, s, TRUE, "none", "na", "na") : s \in Sigs}
    \cup {Elem(AssertionTag, "missing", FALSE, "none", "na", "na"),
          Elem(AssertionTag, "valid", TRUE, AssertionTag, "na", "na"),
          Elem(AssertionTag, "missing", TRUE, AssertionTag, "na", "na")}

EncryptedShapes ==
    {Elem(EncryptedAssertionTag, "missing", TRUE, "none", e, "na") :
        e \in {"unmarshalFail", "decryptFail", "parseFail", "noRoot"}}
    \cup {Elem(EncryptedAssertionTag, "missing", TRUE, "none", "ok", p) :
        p \in {"valid", "missing"}}
    \cup {Elem(EncryptedAssertionTag, "missing", FALSE, "none", "ok", "valid"),
          Elem(EncryptedAssertionTag, "missing", TRUE, EncryptedAssertionTag,
               "ok", "valid")}

OtherShapes ==
    {Elem(OtherTag, "missing", TRUE, n, "na", "na") :
        n \in {"none", AssertionTag, EncryptedAssertionTag}}

Shapes == AssertionShapes \cup EncryptedShapes \cup OtherShapes

SeqsUpTo(S, n) == UNION {[1..k -> S] : k \in 0..n}

\* The children of a parsed response: shapes with their position as identity.
WithIds(shapes) ==
    [i \in 1..Len(shapes) |->
        [id |-> i, st |-> "orig", tag |-> shapes[i].tag, sig |-> shapes[i].sig,
         detach |-> shapes[i].detach, nested |-> shapes[i].nested,
         enc |-> shapes[i].enc, plain |-> shapes[i].plain]]

\* What encoding/xml and sp.Validate will find in the response element:
\* whether it unmarshals, its Destination and Version, and whether the
\* checks after the attribute checks accept it (read only when both
\* attributes match).
Attrs ==
    {[unmarshalOk |-> FALSE, Destination |-> ACS, Version |-> "2.0", extOk |-> TRUE]}
    \cup [unmarshalOk : {TRUE}, Destination : {ACS, OtherURL},
          Version : {"2.0", "1.1"}, extOk : {TRUE}]
    \cup {[unmarshalOk |-> TRUE, Destination |-> ACS, Version |-> "2.0",
           extOk |-> FALSE]}

\* "nilnoerr": Validate returns a nil element and a nil error (the case the
\* code guards against at the response root).
RootSigs == Sigs \cup {"nilnoerr"}

Roots(n) ==
    {[isNil |-> FALSE, st |-> "orig", sig |-> s, kids |-> WithIds(k),
      attrs |-> a] :
        s \in RootSigs, k \in SeqsUpTo(Shapes, n), a \in Attrs}

\* A document that parsed: its root, or no root element at all.
Docs(n) == Roots(n) \cup {NilElement}

\* The bytes after base64: XML text, a raw-deflate stream, or neither.
XmlBytes(n) == [kind : {"xml"}, doc : Docs(n)]

Garbage == [kind |-> "garbage"]

RawBytes ==
    XmlBytes(MaxKids) \cup {Garbage}
    \cup [kind : {"deflate"}, body : XmlBytes(MaxDeflatedKids) \cup {Garbage}]

EncodedResponses ==
    [b64 : {TRUE}, raw : RawBytes] \cup {[b64 |-> FALSE, raw |-> Garbage]}

KeyStores == {"nil", "tls", "keypair", "keypairErr"}

ServiceProviders ==
    [AssertionConsumerServiceURL : {ACS}, SkipSignatureValidation : BOOLEAN,
     SPKeyStore : KeyStores]

----------------------------------------------------------------------------
VARIABLES
    sp,                \* the service provider's configuration (shared, read only)
    encodedResponse,   \* the argument of ValidateEncodedResponse
    pc,                \* position of the call
    el,                \* the working response element
    responseSignatureValidated,
    decryptCert,       \* decryptAssertions' lazily resolved certificate
    signedAssertions,
    unsignedAssertions,
    work,              \* elements NSFindIterate has still to hand to the handler
    decodedResponse,
    result,            \* what the call returned: [resp, err]
    log,               \* calls made to the collaborators by this call, in order
    last,              \* the step of the call taken last
    first              \* how an earlier call with the same arguments ended

vars == <<sp, encodedResponse, pc, el, responseSignatureValidated, decryptCert,
          signedAssertions, unsignedAssertions, work, decodedResponse, result, log,
          last, first>>

NoResult == [resp |-> NilResponse, err |-> NoErr, returned |-> FALSE]

Returned(resp, err) == [resp |-> resp, err |-> err, returned |-> TRUE]

----------------------------------------------------------------------------
(* The collaborators, by their answer on the structured input.             *)

\* base64.StdEncoding.DecodeString
Base64Decode(enc) ==
    IF enc.b64 THEN [raw |-> enc.raw, err |-> NoErr]
    ELSE [raw |-> Garbage, err |-> Err("base64.CorruptInputError")]

\* etree Document.ReadFromBytes followed by Document.Root
ReadFromBytes(raw) ==
    IF raw.kind = "xml" THEN [doc |-> raw.doc, err |-> NoErr]
    ELSE [doc |-> NilElement, err |-> Err("etree: invalid XML format")]

\* ioutil.ReadAll(flate.NewReader(...))
Inflate(raw) ==
    IF raw.kind = "deflate" THEN [buf |-> raw.body, err |-> NoErr]
    ELSE [buf |-> Garbage, err |-> Err("flate.CorruptInputError")]

\* dsig ValidationContext.Validate on an element: a validated copy, or
\* ErrMissingSignature, or another error; "nilnoerr" is nil, nil.
Validate(x) ==
    CASE x.sig = "valid" -> [el |-> [x EXCEPT !.st = "validated"], err |-> NoErr]
      [] x.sig = "missing" -> [el |-> NilElement, err |-> ErrMissingSignature]
      [] x.sig = "invalid" -> [el |-> NilElement, err |-> ErrInvalidSignature]
      [] OTHER -> [el |-> NilElement, err |-> NoErr]

\* etree Element.RemoveChild: the children without x; found tells whether
\* x was a child (RemoveChild returns nil when it was not).
RemoveChild(kids, x) ==
    [kids |-> SelectSeq(kids, LAMBDA k : k # x),
     found |-> \E i \in 1..Len(kids) : kids[i] = x]

\* etree Element.AddChild
AddChild(kids, x) == Append(kids, x)

\* The root element of the document parsed from a decrypted plaintext.
Plain(x) ==
    [id |-> x.id, st |-> "decrypted", tag |-> AssertionTag, sig |-> x.plain,
     detach |-> TRUE, nested |-> "none", enc |-> "na", plain |-> "na"]

\* The descendant element an element contains (nested # "none"): it is not
\* a child of the response element; it is unsigned and, when encrypted,
\* decryptable.
Nested(k) ==
    [id |-> 0 - k.id, st |-> "orig", tag |-> k.nested, sig |-> "missing",
     detach |-> TRUE, nested |-> "none", enc |-> "ok", plain |-> "missing"]

\* Mutant: the search hands every matching child to the handler twice.
RECURSIVE Found_Revisits(_, _)
Found_Revisits(kids, tag) ==
    IF kids = <<>> THEN <<>>
    ELSE LET k == Head(kids)
             self == IF k.tag = tag
                     THEN <<[direct |-> TRUE, node |-> k],
                            [direct |-> TRUE, node |-> k]>>
                     ELSE <<>>
             deep == IF k.nested = tag
                     THEN <<[direct |-> FALSE, node |-> Nested(k)]>> ELSE <<>>
         IN self \o deep \o Found_Revisits(Tail(kids), tag)

\* etreeutils.NSFindIterate(el, SAMLAssertionNamespace, tag, handler): the
\* elements handed to the handler, in depth-first order over the children
\* el has when the traversal starts.  direct tells whether Parent() is el.
RECURSIVE Found(_, _)
Found(kids, tag) ==
    IF kids = <<>> THEN <<>>
    ELSE LET k == Head(kids)
             self == IF k.tag = tag
                     THEN <<[direct |-> TRUE, node |-> k]>> ELSE <<>>
             deep == IF k.nested = tag
                     THEN <<[direct |-> FALSE, node |-> Nested(k)]>> ELSE <<>>
         IN self \o deep \o Found(Tail(kids), tag)

----------------------------------------------------------------------------
(* The functions of decode_response.go.                                    *)

\* Mutant: the version is checked before the destination.
validateResponseAttributes_VersionFirst(provider, response) ==
    IF response.Version # "2.0"
    THEN ErrInvalidValue("SAML version", ReasonUnsupported, "2.0", response.Version)
    ELSE IF response.Destination # provider.AssertionConsumerServiceURL
    THEN ErrInvalidValue(DestinationAttr, "", provider.AssertionConsumerServiceURL,
                         response.Destination)
    ELSE NoErr

validateResponseAttributes(provider, response) ==
    IF response.Destination # provider.AssertionConsumerServiceURL
    THEN ErrInvalidValue(DestinationAttr, "", provider.AssertionConsumerServiceURL,
                         response.Destination)
    ELSE IF response.Version # "2.0"
    THEN ErrInvalidValue("SAML version", ReasonUnsupported, "2.0", response.Version)
    ELSE NoErr

\* xmlUnmarshalElement(el, &types.Response{}): the typed response carries
\* the response attributes and the Assertion children of el.
xmlUnmarshalElement(root) ==
    IF root.attrs.unmarshalOk
    THEN [resp |-> [isNil |-> FALSE,
                    Destination |-> root.attrs.Destination,
                    Version |-> root.attrs.Version,
                    Assertions |-> SelectSeq(root.kids,
                                             LAMBDA k : k.tag = AssertionTag),
                    extOk |-> root.attrs.extOk],
          err |-> NoErr]
    ELSE [resp |-> NilResponse, err |-> Err("xml: unmarshal error")]

getDecryptCert(provider) ==
    CASE provider.SPKeyStore = "nil" ->
            [cert |-> "nil", err |-> Err("no decryption certs available")]
      [] provider.SPKeyStore = "tls" -> [cert |-> "cert", err |-> NoErr]
      [] provider.SPKeyStore = "keypairErr" ->
            [cert |-> "nil", err |-> Err("error getting keypair")]
      [] OTHER -> [cert |-> "cert", err |-> NoErr]

validateElementSignature(x) == Validate(x)

\* Mutant: the flate fallback is tried before the direct parse.
DecodeDocument_InflateFirst(enc) ==
    LET b == Base64Decode(enc)
        Root(doc, z) ==
            IF doc.isNil
            THEN [el |-> NilElement, err |-> Err("unable to parse response"),
                  inflated |-> z]
            ELSE [el |-> doc, err |-> NoErr, inflated |-> z]
    IN IF b.err # NoErr
       THEN [el |-> NilElement, err |-> b.err, inflated |-> FALSE]
       ELSE LET z == Inflate(b.raw)
            IN IF z.err # NoErr
               THEN LET p == ReadFromBytes(b.raw)
                    IN IF p.err # NoErr
                       THEN [el |-> NilElement, err |-> p.err, inflated |-> TRUE]
                       ELSE Root(p.doc, TRUE)
               ELSE LET q == ReadFromBytes(z.buf)
                    IN IF q.err # NoErr
                       THEN [el |-> NilElement, err |-> q.err, inflated |-> TRUE]
                       ELSE Root(q.doc, TRUE)

\* ValidateEncodedResponse, lines 201-225: the response element or an error;
\* inflated tells whether the flate fallback was run.
DecodeDocument(enc) ==
    LET b == Base64Decode(enc)
        Root(doc, z) ==
            IF doc.isNil
            THEN [el |-> NilElement, err |-> Err("unable to parse response"),
                  inflated |-> z]
            ELSE [el |-> doc, err |-> NoErr, inflated |-> z]
    IN IF b.err # NoErr
       THEN [el |-> NilElement, err |-> b.err, inflated |-> FALSE]
       ELSE LET p == ReadFromBytes(b.raw)
            IN IF p.err # NoErr
               THEN LET z == Inflate(b.raw)
                    IN IF z.err # NoErr
                       THEN [el |-> NilElement, err |-> z.err, inflated |-> TRUE]
                       ELSE LET q == ReadFromBytes(z.buf)
                            IN IF q.err # NoErr
                               THEN [el |-> NilElement, err |-> q.err,
                                     inflated |-> TRUE]
                               ELSE Root(q.doc, TRUE)
               ELSE Root(p.doc, FALSE)

\* Mutant: the envelope is validated whether or not checking is skipped.
ValidateRootStep_IgnoresSkip(provider, root) ==
    LET v == validateElementSignature(root)
    IN CASE v.err = ErrMissingSignature ->
               [el |-> root, validated |-> FALSE, err |-> NoErr, called |-> TRUE]
         [] v.err # NoErr ->
               [el |-> NilElement, validated |-> FALSE, err |-> v.err,
                called |-> TRUE]
         [] v.el.isNil ->
               [el |-> NilElement, validated |-> FALSE,
                err |-> Err("missing transformed response"), called |-> TRUE]
         [] OTHER ->
               [el |-> v.el, validated |-> TRUE, err |-> NoErr, called |-> TRUE]

\* Mutant: an envelope without a signature is recorded as validated.
ValidateRootStep_TrustsUnsigned(provider, root) ==
    IF provider.SkipSignatureValidation
    THEN [el |-> root, validated |-> FALSE, err |-> NoErr, called |-> FALSE]
    ELSE LET v == validateElementSignature(root)
         IN CASE v.err = ErrMissingSignature ->
                    [el |-> root, validated |-> TRUE, err |-> NoErr,
                     called |-> TRUE]
              [] v.err # NoErr ->
                    [el |-> NilElement, validated |-> FALSE, err |-> v.err,
                     called |-> TRUE]
              [] v.el.isNil ->
                    [el |-> NilElement, validated |-> FALSE,
                     err |-> Err("missing transformed response"), called |-> TRUE]
              [] OTHER ->
                    [el |-> v.el, validated |-> TRUE, err |-> NoErr,
                     called |-> TRUE]

\* ValidateEncodedResponse, lines 227-240: the working root, whether the
\* envelope was validated, and the error that ends the call (or nil).
ValidateRootStep(provider, root) ==
    IF provider.SkipSignatureValidation
    THEN [el |-> root, validated |-> FALSE, err |-> NoErr, called |-> FALSE]
    ELSE LET v == validateElementSignature(root)
         IN CASE v.err = ErrMissingSignature ->
                    [el |-> root, validated |-> FALSE, err |-> NoErr,
                     called |-> TRUE]
              [] v.err # NoErr ->
                    [el |-> NilElement, validated |-> FALSE, err |-> v.err,
                     called |-> TRUE]
              [] v.el.isNil ->
                    [el |-> NilElement, validated |-> FALSE,
                     err |-> Err("missing transformed response"), called |-> TRUE]
              [] OTHER ->
                    [el |-> v.el, validated |-> TRUE, err |-> NoErr,
                     called |-> TRUE]

\* Mutant: the parent of a found element is never checked.
UnexpectedParent_Never(f) == FALSE

\* The check both handlers start with (lines 97 and 155): the found
\* element's Parent() is not the response element.
UnexpectedParent(f) == ~f.direct

\* Mutant: a removal that finds nothing goes unnoticed.
RemovalDefect_Ignored(rm) == FALSE

\* The test both handlers make of RemoveChild's result (lines 131 and 174):
\* it is nil, nothing was removed.
RemovalDefect(rm) == ~rm.found

\* Mutant: the original child is left in place.
ReplaceChild_NoRemove(root, old, new) ==
    [root EXCEPT !.kids = AddChild(root.kids, new)]

\* The replacement both handlers end with (lines 131-136 and 174-180):
\* remove the original child, then append the new element.
ReplaceChild(root, old, new) ==
    [root EXCEPT !.kids = AddChild(RemoveChild(root.kids, old).kids, new)]

\* Mutant: the certificate resolved by an earlier call is kept.
NewDecryptCert_Retained == decryptCert

\* decryptAssertions, line 94: the certificate is a local of the call to
\* decryptAssertions and starts nil.
NewDecryptCert == "nil"

\* The handler decryptAssertion of decryptAssertions (lines 96-138) on one
\* found element f: the response element, the cached certificate, the error
\* returned, whether it panicked and whether getDecryptCert was called.
decryptAssertion(provider, root, cert, f) ==
    LET x == f.node
        fetch == cert = "nil"
        c == IF fetch THEN getDecryptCert(provider)
                      ELSE [cert |-> cert, err |-> NoErr]
        rm == RemoveChild(root.kids, x)
        stop(e, crt, fetched) ==
            [el |-> root, cert |-> crt, err |-> Err(e), panic |-> FALSE,
             why |-> NoErr, fetched |-> fetched]
    IN CASE UnexpectedParent(f) ->
               stop("found encrypted assertion with unexpected parent element",
                    cert, FALSE)
         [] ~x.detach -> stop("unable to detach encrypted assertion", cert, FALSE)
         [] x.enc = "unmarshalFail" ->
               stop("unable to unmarshal encrypted assertion", cert, FALSE)
         [] c.err # NoErr ->
               stop("unable to get decryption certificate", c.cert, fetch)
         [] x.enc = "decryptFail" ->
               stop("unable to decrypt encrypted assertion", c.cert, fetch)
         [] x.enc = "parseFail" ->
               stop("unable to create element from decrypted assertion bytes",
                    c.cert, fetch)
         [] RemovalDefect(rm) ->
               [el |-> root, cert |-> c.cert, err |-> NoErr, panic |-> TRUE,
                why |-> Err("panic: unable to remove encrypted assertion"),
                fetched |-> fetch]
         [] x.enc = "noRoot" ->
               \* AddChild(doc.Root()) with a nil root dereferences nil
               [el |-> [root EXCEPT !.kids = rm.kids], cert |-> c.cert,
                err |-> NoErr, panic |-> TRUE,
                why |-> Err("panic: nil pointer dereference"),
                fetched |-> fetch]
         [] OTHER ->
               [el |-> ReplaceChild(root, x, Plain(x)),
                cert |-> c.cert, err |-> NoErr, panic |-> FALSE,
                why |-> NoErr, fetched |-> fetch]

\* Mutant: any error of Validate counts the assertion as unsigned.
validateAssertion_ErrorsAsUnsigned(root, signed, unsigned, f) ==
    LET x == f.node
        v == Validate(x)
        rm == RemoveChild(root.kids, x)
        out(r, s, u, e, p, called) ==
            [el |-> r, signed |-> s, unsigned |-> u, err |-> e, panic |-> p,
             why |-> IF p THEN Err("panic: unable to remove assertion")
                          ELSE NoErr,
             called |-> called]
    IN CASE UnexpectedParent(f) ->
               out(root, signed, unsigned,
                   Err("found assertion with unexpected parent element"),
                   FALSE, FALSE)
         [] ~x.detach ->
               out(root, signed, unsigned,
                   Err("unable to detach unverified assertion"), FALSE, FALSE)
         [] v.err # NoErr ->
               out(root, signed, unsigned + 1, NoErr, FALSE, TRUE)
         [] RemovalDefect(rm) -> out(root, signed, unsigned, NoErr, TRUE, TRUE)
         [] OTHER ->
               out(ReplaceChild(root, x, v.el),
                   signed + 1, unsigned, NoErr, FALSE, TRUE)

\* Mutant: an assertion that validates is counted as signed and left as it
\* is, its validated copy dropped.
validateAssertion_KeepsOriginal(root, signed, unsigned, f) ==
    LET x == f.node
        v == Validate(x)
        rm == RemoveChild(root.kids, x)
        out(r, s, u, e, p, called) ==
            [el |-> r, signed |-> s, unsigned |-> u, err |-> e, panic |-> p,
             why |-> IF p THEN Err("panic: unable to remove assertion")
                          ELSE NoErr,
             called |-> called]
    IN CASE UnexpectedParent(f) ->
               out(root, signed, unsigned,
                   Err("found assertion with unexpected parent element"),
                   FALSE, FALSE)
         [] ~x.detach ->
               out(root, signed, unsigned,
                   Err("unable to detach unverified assertion"), FALSE, FALSE)
         [] v.err = ErrMissingSignature ->
               out(root, signed, unsigned + 1, NoErr, FALSE, TRUE)
         [] v.err # NoErr -> out(root, signed, unsigned, v.err, FALSE, TRUE)
         [] RemovalDefect(rm) -> out(root, signed, unsigned, NoErr, TRUE, TRUE)
         [] OTHER -> out(root, signed + 1, unsigned, NoErr, FALSE, TRUE)

\* The handler validateAssertion of validateAssertionSignatures (lines
\* 154-184) on one found element f.
validateAssertion(root, signed, unsigned, f) ==
    LET x == f.node
        v == Validate(x)
        rm == RemoveChild(root.kids, x)
        out(r, s, u, e, p, called) ==
            [el |-> r, signed |-> s, unsigned |-> u, err |-> e, panic |-> p,
             why |-> IF p THEN Err("panic: unable to remove assertion")
                          ELSE NoErr,
             called |-> called]
    IN CASE UnexpectedParent(f) ->
               out(root, signed, unsigned,
                   Err("found assertion with unexpected parent element"),
                   FALSE, FALSE)
         [] ~x.detach ->
               out(root, signed, unsigned,
                   Err("unable to detach unverified assertion"), FALSE, FALSE)
         [] v.err = ErrMissingSignature ->
               out(root, signed, unsigned + 1, NoErr, FALSE, TRUE)
         [] v.err # NoErr -> out(root, signed, unsigned, v.err, FALSE, TRUE)
         [] RemovalDefect(rm) -> out(root, signed, unsigned, NoErr, TRUE, TRUE)
         [] OTHER ->
               out(ReplaceChild(root, x, v.el),
                   signed + 1, unsigned, NoErr, FALSE, TRUE)

\* Mutant: a pass without any signed assertion is not reported.
EnforcementResult_NoAnchorCheck(signed, unsigned) ==
    IF signed > 0 /\ unsigned > 0
    THEN Err("invalid to have both signed and unsigned assertions")
    ELSE NoErr

\* Mutant: the mixed signed/unsigned check is missing.
EnforcementResult_NoMixedCheck(signed, unsigned) ==
    IF signed < 1 THEN ErrMissingSignature ELSE NoErr

\* validateAssertionSignatures, lines 186-194, once the traversal is over.
EnforcementResult(signed, unsigned) ==
    IF signed > 0 /\ unsigned > 0
    THEN Err("invalid to have both signed and unsigned assertions")
    ELSE IF signed < 1 THEN ErrMissingSignature
    ELSE NoErr

\* Mutant: the test of the envelope's state is inverted.
AfterEnforcement_Inverted(err, envelopeValidated) ==
    IF err = ErrMissingSignature
    THEN IF envelopeValidated
         THEN Err("response and/or assertions must be signed")
         ELSE NoErr
    ELSE IF err # NoErr THEN err
    ELSE NoErr

\* Mutant: without a validated envelope every error of the enforcement pass
\* is reported as the missing-signature verdict.
AfterEnforcement_MasksErrors(err, envelopeValidated) ==
    IF err # NoErr /\ ~envelopeValidated
    THEN Err("response and/or assertions must be signed")
    ELSE IF err = ErrMissingSignature THEN NoErr
    ELSE err

\* Mutant: a missing signature is tolerated whatever the envelope's state.
AfterEnforcement_AlwaysTolerant(err, envelopeValidated) ==
    IF err = ErrMissingSignature THEN NoErr
    ELSE IF err # NoErr THEN err
    ELSE NoErr

\* ValidateEncodedResponse, lines 249-255: the error that ends the call
\* after validateAssertionSignatures returned err, or nil to go on.
AfterEnforcement(err, envelopeValidated) ==
    IF err = ErrMissingSignature
    THEN IF ~envelopeValidated
         THEN Err("response and/or assertions must be signed")
         ELSE NoErr
    ELSE IF err # NoErr THEN err
    ELSE NoErr

\* sp.Validate(decodedResponse): the attribute checks, then the further
\* semantic checks of the typed response.
ValidateResponse(provider, response) ==
    LET e == validateResponseAttributes(provider, response)
    IN IF e # NoErr THEN e
       ELSE IF ~response.extOk THEN Err("response failed semantic validation")
       ELSE NoErr

----------------------------------------------------------------------------
(* One call of ValidateEncodedResponse.                                    *)

Event(op, x, direct, res) ==
    [op |-> op, id |-> x.id, st |-> x.st, tag |-> x.tag, direct |-> direct,
     res |-> res.msg]

RootId(root) == [id |-> 0, st |-> root.st, tag |-> "Response"]

\* How a call ended: where it stopped and what it returned.
Outcome == [pc |-> pc, result |-> result]

NoOutcome == [pc |-> "none", result |-> NoResult]

Init ==
    /\ sp \in ServiceProviders
    /\ encodedResponse \in EncodedResponses
    /\ pc = "decode"
    /\ el = NilElement
    /\ responseSignatureValidated = FALSE
    /\ decryptCert = "nil"
    /\ signedAssertions = 0
    /\ unsignedAssertions = 0
    /\ work = <<>>
    /\ decodedResponse = NilResponse
    /\ result = NoResult
    /\ log = <<>>
    /\ last = "none"
    /\ first = NoOutcome

\* return nil, err
Fail(err) ==
    /\ result' = Returned(NilResponse, err)
    /\ pc' = "done"

\* lines 201-225
Decode ==
    /\ last' = "Decode"
    /\ pc = "decode"
    /\ LET d == DecodeDocument(encodedResponse)
       IN /\ log' = IF d.inflated
                    THEN Append(log, Event("Inflate", RootId([st |-> "orig"]),
                                           TRUE, Inflate(encodedResponse.raw).err))
                    ELSE log
          /\ IF d.err # NoErr
             THEN Fail(d.err) /\ UNCHANGED el
             ELSE /\ el' = d.el
                  /\ pc' = "rootsig"
                  /\ UNCHANGED result
    /\ UNCHANGED <<sp, encodedResponse, first, responseSignatureValidated, decryptCert,
                   signedAssertions, unsignedAssertions, work, decodedResponse>>

\* Mutant: with checking enabled the orchestrator goes from the envelope
\* straight to the enforcement pass, before any assertion is decrypted.
ValidateRoot_EnforcesFirst ==
    /\ last' = "ValidateRoot"
    /\ pc = "rootsig"
    /\ LET r == ValidateRootStep(sp, el)
       IN /\ log' = IF r.called
                    THEN Append(log, Event("Validate", RootId(el), TRUE,
                                           Validate(el).err))
                    ELSE log
          /\ IF r.err # NoErr
             THEN Fail(r.err) /\ UNCHANGED <<el, responseSignatureValidated, work>>
             ELSE /\ el' = r.el
                  /\ responseSignatureValidated' = r.validated
                  /\ work' = IF sp.SkipSignatureValidation
                             THEN Found(r.el.kids, EncryptedAssertionTag)
                             ELSE Found(r.el.kids, AssertionTag)
                  /\ pc' = IF sp.SkipSignatureValidation THEN "decrypt"
                                                         ELSE "enforce"
                  /\ UNCHANGED result
    /\ decryptCert' = NewDecryptCert
    /\ UNCHANGED <<sp, encodedResponse, first, signedAssertions, unsignedAssertions,
                   decodedResponse>>

\* lines 227-240, and the start of decryptAssertions (lines 94 and 140)
ValidateRoot ==
    /\ last' = "ValidateRoot"
    /\ pc = "rootsig"
    /\ LET r == ValidateRootStep(sp, el)
       IN /\ log' = IF r.called
                    THEN Append(log, Event("Validate", RootId(el), TRUE,
                                           Validate(el).err))
                    ELSE log
          /\ IF r.err # NoErr
             THEN Fail(r.err) /\ UNCHANGED <<el, responseSignatureValidated, work>>
             ELSE /\ el' = r.el
                  /\ responseSignatureValidated' = r.validated
                  /\ work' = Found(r.el.kids, EncryptedAssertionTag)
                  /\ pc' = "decrypt"
                  /\ UNCHANGED result
    /\ decryptCert' = NewDecryptCert
    /\ UNCHANGED <<sp, encodedResponse, first, signedAssertions, unsignedAssertions,
                   decodedResponse>>

\* Mutant: a certificate resolved from the key store is cached in the shared
\* configuration, as a key store that holds the certificate itself.
DecryptAssertion_CachesInProvider ==
    /\ last' = "DecryptAssertion"
    /\ pc = "decrypt"
    /\ work # <<>>
    /\ LET d == decryptAssertion(sp, el, decryptCert, Head(work))
       IN /\ el' = d.el
          /\ decryptCert' = d.cert
          /\ sp' = IF d.fetched /\ d.cert # "nil"
                   THEN [sp EXCEPT !.SPKeyStore = "tls"]
                   ELSE sp
          /\ log' = log
                \o (IF d.fetched
                    THEN <<Event("getDecryptCert", Head(work).node,
                                 Head(work).direct, getDecryptCert(sp).err)>>
                    ELSE <<>>)
                \o <<Event("decryptAssertion", Head(work).node,
                         Head(work).direct, IF d.panic THEN d.why ELSE d.err)>>
          /\ IF d.panic
             THEN pc' = "panic" /\ UNCHANGED <<result, work>>
             ELSE IF d.err # NoErr
             THEN Fail(d.err) /\ UNCHANGED work
             ELSE /\ work' = Tail(work)
                  /\ UNCHANGED <<pc, result>>
    /\ UNCHANGED <<encodedResponse, first, responseSignatureValidated,
                   signedAssertions, unsignedAssertions, decodedResponse>>

\* one call of the handler decryptAssertion (lines 96-138)
DecryptAssertion ==
    /\ last' = "DecryptAssertion"
    /\ pc = "decrypt"
    /\ work # <<>>
    /\ LET d == decryptAssertion(sp, el, decryptCert, Head(work))
       IN /\ el' = d.el
          /\ decryptCert' = d.cert
          /\ log' = log
                \o (IF d.fetched
                    THEN <<Event("getDecryptCert", Head(work).node,
                                 Head(work).direct, getDecryptCert(sp).err)>>
                    ELSE <<>>)
                \o <<Event("decryptAssertion", Head(work).node,
                         Head(work).direct, IF d.panic THEN d.why ELSE d.err)>>
          /\ IF d.panic
             THEN pc' = "panic" /\ UNCHANGED <<result, work>>
             ELSE IF d.err # NoErr
             THEN Fail(d.err) /\ UNCHANGED work
             ELSE /\ work' = Tail(work)
                  /\ UNCHANGED <<pc, result>>
    /\ UNCHANGED <<sp, encodedResponse, first, responseSignatureValidated,
                   signedAssertions, unsignedAssertions, decodedResponse>>

\* decryptAssertions returns nil (lines 140-145, 242-247); with signature
\* checking validateAssertionSignatures starts (lines 152-153, 186)
DecryptDone ==
    /\ last' = "DecryptDone"
    /\ pc = "decrypt"
    /\ work = <<>>
    /\ IF sp.SkipSignatureValidation
       THEN /\ pc' = "unmarshal"
            /\ UNCHANGED <<work, signedAssertions, unsignedAssertions>>
       ELSE /\ pc' = "enforce"
            /\ work' = Found(el.kids, AssertionTag)
            /\ signedAssertions' = 0
            /\ unsignedAssertions' = 0
    /\ UNCHANGED <<sp, encodedResponse, first, el, responseSignatureValidated,
                   decryptCert, decodedResponse, result, log>>

\* one call of the handler validateAssertion (lines 154-184)
ValidateAssertion ==
    /\ last' = "ValidateAssertion"
    /\ pc = "enforce"
    /\ work # <<>>
    /\ LET v == validateAssertion(el, signedAssertions, unsignedAssertions,
                                  Head(work))
       IN /\ el' = v.el
          /\ signedAssertions' = v.signed
          /\ unsignedAssertions' = v.unsigned
          /\ log' = log
                \o (IF v.called
                    THEN <<Event("Validate", Head(work).node, Head(work).direct,
                                 Validate(Head(work).node).err)>>
                    ELSE <<>>)
                \o <<Event("validateAssertion", Head(work).node,
                           Head(work).direct, IF v.panic THEN v.why ELSE v.err)>>
          /\ IF v.panic
             THEN pc' = "panic" /\ UNCHANGED <<result, work>>
             ELSE IF v.err # NoErr
             THEN Fail(v.err) /\ UNCHANGED work
             ELSE /\ work' = Tail(work)
                  /\ UNCHANGED <<pc, result>>
    /\ UNCHANGED <<sp, encodedResponse, first, responseSignatureValidated, decryptCert,
                   decodedResponse>>

\* validateAssertionSignatures returns (lines 186-194) and the caller
\* decides (lines 248-256)
EnforceDone ==
    /\ last' = "EnforceDone"
    /\ pc = "enforce"
    /\ work = <<>>
    /\ LET e == AfterEnforcement(
                    EnforcementResult(signedAssertions, unsignedAssertions),
                    responseSignatureValidated)
       IN IF e # NoErr
          THEN Fail(e)
          ELSE pc' = "unmarshal" /\ UNCHANGED result
    /\ UNCHANGED <<sp, encodedResponse, first, el, responseSignatureValidated,
                   decryptCert, signedAssertions, unsignedAssertions, work,
                   decodedResponse, log>>

\* lines 258-262
Unmarshal ==
    /\ last' = "Unmarshal"
    /\ pc = "unmarshal"
    /\ LET u == xmlUnmarshalElement(el)
       IN IF u.err # NoErr
          THEN Fail(Err("unable to unmarshal response")) /\ UNCHANGED decodedResponse
          ELSE /\ decodedResponse' = u.resp
               /\ pc' = "validate"
               /\ UNCHANGED result
    /\ UNCHANGED <<sp, encodedResponse, first, el, responseSignatureValidated,
                   decryptCert, signedAssertions, unsignedAssertions, work, log>>

\* lines 264-269
ValidateDecoded ==
    /\ last' = "ValidateDecoded"
    /\ pc = "validate"
    /\ LET e == ValidateResponse(sp, decodedResponse)
       IN IF e # NoErr
          THEN Fail(e)
          ELSE /\ result' = Returned(decodedResponse, NoErr)
               /\ pc' = "done"
    /\ UNCHANGED <<sp, encodedResponse, first, el, responseSignatureValidated,
                   decryptCert, signedAssertions, unsignedAssertions, work,
                   decodedResponse, log>>

Next ==
    \/ Decode
    \/ ValidateRoot
    \/ DecryptAssertion
    \/ DecryptDone
    \/ ValidateAssertion
    \/ EnforceDone
    \/ Unmarshal
    \/ ValidateDecoded

Spec == Init /\ [][Next]_vars

\* line 200: the caller invokes ValidateEncodedResponse once more on the same
\* provider with the same argument.  The call's position and results start
\* afresh; the locals declared further down (lines 94, 152-153, 227) get their
\* values where the steps above declare them.
NewCall ==
    /\ last' = "none"
    /\ pc \in {"done", "panic"}
    /\ first = NoOutcome
    /\ first' = Outcome
    /\ pc' = "decode"
    /\ el' = NilElement
    /\ work' = <<>>
    /\ decodedResponse' = NilResponse
    /\ result' = NoResult
    /\ log' = <<>>
    /\ UNCHANGED <<sp, encodedResponse, responseSignatureValidated, decryptCert,
                   signedAssertions, unsignedAssertions>>

NextTwice ==
    \/ Next
    \/ NewCall

\* Two calls in a row with the same configuration and the same argument.
SpecTwice == Init /\ [][NextTwice]_vars

\* The state the checks of lines 131 and 174 guard against: the element the
\* search is about to hand to the handler still names the response element
\* as its parent but is no longer among its children.
Detached ==
    /\ last' = "Detached"
    /\ pc \in {"decrypt", "enforce"}
    /\ work # <<>>
    /\ Head(work).direct
    /\ RemoveChild(el.kids, Head(work).node).found
    /\ el' = [el EXCEPT !.kids = RemoveChild(el.kids, Head(work).node).kids]
    /\ UNCHANGED <<sp, encodedResponse, first, pc, responseSignatureValidated,
                   decryptCert, signedAssertions, unsignedAssertions, work,
                   decodedResponse, result, log>>

NextDefect ==
    \/ Next
    \/ Detached

\* One call during which the tree may lose the element about to be handled:
\* the handlers applied to elements that are not children of the response.
SpecDefect == Init /\ [][NextDefect]_vars

----------------------------------------------------------------------------
(* Properties.                                                             *)

\* The call returned a typed response and a nil error.
Succeeded ==
    /\ pc = "done"
    /\ result.returned
    /\ result.err = NoErr
    /\ ~result.resp.isNil

\* The call returned nil and the error e.
FailedWith(e) ==
    /\ pc = "done"
    /\ result = Returned(NilResponse, e)

Checking == ~sp.SkipSignatureValidation

\* Validate answered res for the element (id, st) at some point of the call.
ValidatorSaid(id, st, res) ==
    \E i \in 1..Len(log) :
        /\ log[i].op = "Validate"
        /\ log[i].id = id
        /\ log[i].st = st
        /\ log[i].res = res.msg

\* An assertion of the typed response is trusted: it is the validated copy
\* Validate returned for it, or the response root is a validated copy.
Trusted(a) ==
    \/ /\ a.st = "validated"
       /\ \E st \in {"orig", "decrypted"} : ValidatorSaid(a.id, st, NoErr)
    \/ /\ responseSignatureValidated
       /\ el.st = "validated"
       /\ ValidatorSaid(0, "orig", NoErr)

\* C1 as stated: in every call that returns a typed response, every
\* assertion unmarshalled into it was individually signature-validated and
\* replaced by its validated copy, or the response root was validated.
C1_Original ==
    Succeeded =>
        \A i \in 1..Len(result.resp.Assertions) :
            Trusted(result.resp.Assertions[i])

\* C1 amended: the same, for calls with signature checking enabled
\* (SkipSignatureValidation false).
C1_TrustedAssertions ==
    (Succeeded /\ Checking) =>
        \A i \in 1..Len(result.resp.Assertions) :
            Trusted(result.resp.Assertions[i])

\* A successful call with checking enabled and an unvalidated envelope
\* that returns an assertion.
C1_Witness ==
    /\ Succeeded
    /\ Checking
    /\ ~responseSignatureValidated
    /\ Len(result.resp.Assertions) >= 1

MixedErr == Err("invalid to have both signed and unsigned assertions")

MustBeSigned == Err("response and/or assertions must be signed")

\* C2: with signature checking enabled, once the enforcement pass has
\* visited every assertion with at least one validated and at least one
\* unsigned, the call fails with the mixed signed/unsigned error and
\* returns no typed response, whether or not the envelope was validated.
C2_MixedRejected ==
    (/\ signedAssertions > 0
     /\ unsignedAssertions > 0
     /\ work = <<>>
     /\ pc # "enforce") => FailedWith(MixedErr)

\* A mixed response under a validated envelope, rejected.
C2_Witness ==
    /\ FailedWith(MixedErr)
    /\ responseSignatureValidated
    /\ signedAssertions > 0
    /\ unsignedAssertions > 0

\* The validator reported no signature for the response root.
EnvelopeUnsigned == ValidatorSaid(0, "orig", ErrMissingSignature)

\* NSDetatch succeeds on every child of the response element.
AllDetach == \A i \in 1..Len(el.kids) : el.kids[i].detach

\* No Assertion child of the response element carries a valid signature.
NoValidAssertion ==
    \A i \in 1..Len(el.kids) :
        el.kids[i].tag = AssertionTag =>
            (el.kids[i].sig # "valid" /\ el.kids[i].st # "validated")

\* C3 as stated: with checking enabled, an unsigned envelope and no validly
\* signed assertion, the call fails with "response and/or assertions must
\* be signed" (read for the calls whose decryption pass succeeded and whose
\* elements all detach).
C3_Original ==
    (/\ pc = "done"
     /\ Checking
     /\ EnvelopeUnsigned
     /\ NoValidAssertion
     /\ AllDetach
     /\ last \in {"ValidateAssertion", "EnforceDone"})
        => FailedWith(MustBeSigned)

\* C3 amended: with checking enabled, an unsigned envelope and no validated
\* assertion, the call never reaches unmarshalling and returns no typed
\* response; it fails with "response and/or assertions must be signed"
\* whenever decryption and the enforcement pass end without another error;
\* and every successful call with checking enabled has the envelope
\* validated or at least one, and then every, assertion validated.
C3_TrustAnchor ==
    /\ (Checking /\ EnvelopeUnsigned /\ signedAssertions = 0) =>
            (~Succeeded /\ pc \notin {"unmarshal", "validate"})
    /\ (/\ Checking
        /\ ~responseSignatureValidated
        /\ signedAssertions = 0
        /\ pc = "done"
        /\ last = "EnforceDone") => FailedWith(MustBeSigned)
    /\ (Succeeded /\ Checking) =>
            \/ responseSignatureValidated
            \/ /\ signedAssertions >= 1
               /\ \A i \in 1..Len(el.kids) :
                      el.kids[i].tag = AssertionTag => el.kids[i].st = "validated"

\* An unsigned envelope around unsigned assertions, rejected.
C3_Witness ==
    /\ FailedWith(MustBeSigned)
    /\ EnvelopeUnsigned
    /\ unsignedAssertions >= 1

\* C4: with checking enabled, a failure of the validator other than a
\* missing signature, for the root or for a visited assertion, ends the
\* call with that error and no typed response, and nothing is validated
\* after it; the envelope having been validated changes nothing.
C4_InvalidSignatureFatal ==
    \A i \in 1..Len(log) :
        (/\ log[i].op = "Validate"
         /\ log[i].res \notin {NoErr.msg, ErrMissingSignature.msg}) =>
            /\ FailedWith(ErrInvalidSignature)
            /\ \A j \in (i + 1)..Len(log) : log[j].op # "Validate"

\* An invalid assertion under a validated envelope, with a further
\* assertion the pass never visits.
C4_Witness ==
    /\ FailedWith(ErrInvalidSignature)
    /\ responseSignatureValidated
    /\ last = "ValidateAssertion"
    /\ Len(work) >= 2

\* The semantic validation accepts what the response element unmarshals to.
SemanticallyValid ==
    /\ el.attrs.unmarshalOk
    /\ ValidateResponse(sp, xmlUnmarshalElement(el).resp) = NoErr

\* Every Assertion child of the response element, decrypted ones included,
\* is unsigned.
AllAssertionsUnsigned ==
    \A i \in 1..Len(el.kids) :
        el.kids[i].tag = AssertionTag =>
            (el.kids[i].sig = "missing" /\ el.kids[i].st # "validated")

\* C5 as stated: with checking enabled, a validly signed envelope and no
\* signed assertion, the call returns a typed response provided
\* decryption, unmarshalling and semantic validation do not fail (read
\* for the responses whose elements all detach).
C5_Original ==
    (/\ pc = "done"
     /\ Checking
     /\ responseSignatureValidated
     /\ AllAssertionsUnsigned
     /\ AllDetach
     /\ last # "DecryptAssertion"
     /\ SemanticallyValid) => Succeeded

\* C5 amended: the enforcer's missing-signature outcome is tolerated
\* exactly when responseSignatureValidated is true; so with checking
\* enabled, a validated envelope and no signed assertion the call returns
\* a typed response provided decryption, the enforcement pass,
\* unmarshalling and semantic validation do not fail.
C5_EnvelopeTrust ==
    /\ (last = "EnforceDone" /\ signedAssertions = 0) =>
            /\ responseSignatureValidated <=> pc = "unmarshal"
            /\ ~responseSignatureValidated <=> FailedWith(MustBeSigned)
    /\ (/\ pc = "done"
        /\ Checking
        /\ responseSignatureValidated
        /\ signedAssertions = 0
        /\ last \notin {"DecryptAssertion", "ValidateAssertion"}
        /\ SemanticallyValid) => Succeeded

\* A validated envelope around unsigned assertions, accepted.
C5_Witness ==
    /\ Succeeded
    /\ Checking
    /\ responseSignatureValidated
    /\ signedAssertions = 0
    /\ unsignedAssertions >= 1

EncryptedParentErr ==
    Err("found encrypted assertion with unexpected parent element")

AssertionParentErr == Err("found assertion with unexpected parent element")

\* C6: an EncryptedAssertion (in every mode) or an Assertion (with checking
\* enabled) that the search finds under the response with a parent other
\* than the working response element ends the call with the
\* unexpected-parent error, the tree untouched; hence in a successful call
\* every element handed to a handler was a direct child of the response.
C6_UnexpectedParent ==
    /\ [][(/\ pc \in {"decrypt", "enforce"}
            /\ work # <<>>
            /\ ~Head(work).direct) =>
              /\ pc' = "done"
              /\ result' = Returned(NilResponse,
                                    IF pc = "decrypt" THEN EncryptedParentErr
                                                      ELSE AssertionParentErr)
              /\ el' = el]_vars
    /\ [](Succeeded => \A i \in 1..Len(log) : log[i].direct)
    /\ [](pc = "enforce" => Checking)

\* A nested EncryptedAssertion rejected although signatures are not checked.
C6_Witness ==
    /\ FailedWith(EncryptedParentErr)
    /\ sp.SkipSignatureValidation
    /\ work # <<>>
    /\ ~Head(work).direct

\* C7: every call ends with a typed response and a nil error, or with a
\* nil response and an error, and with nothing else.
C7_TwoOutcomes ==
    /\ pc # "panic"
    /\ pc = "done" =>
          /\ result.returned
          /\ (result.err = NoErr) <=> ~result.resp.isNil
    /\ result.returned => pc = "done"

\* The children the response element had when it was parsed.
OriginalKids == DecodeDocument(encodedResponse).el.kids

IsEncrypted(k) == k.tag = EncryptedAssertionTag

\* The decrypted element of each EncryptedAssertion of kids, in order.
RECURSIVE Plains(_)
Plains(kids) ==
    IF kids = <<>> THEN <<>>
    ELSE (IF IsEncrypted(Head(kids)) THEN <<Plain(Head(kids))>> ELSE <<>>)
         \o Plains(Tail(kids))

\* decryptAssertions returned nil in this call.
DecryptReturned ==
    \/ pc \in {"enforce", "unmarshal", "validate"}
    \/ pc = "done" /\ last \in {"ValidateAssertion", "EnforceDone", "Unmarshal",
                                 "ValidateDecoded"}

\* C8: when decryptAssertions returns without error, every EncryptedAssertion
\* child of the response element has been removed and the element parsed
\* from its plaintext appended to the same element; the typed output holds
\* the decrypted assertions and none of the encrypted elements.
C8_DecryptedSpliced ==
    /\ last = "DecryptDone" =>
            el.kids = SelectSeq(OriginalKids, LAMBDA k : ~IsEncrypted(k))
                      \o Plains(OriginalKids)
    /\ DecryptReturned =>
            /\ \A i \in 1..Len(el.kids) : ~IsEncrypted(el.kids[i])
            /\ \A i \in 1..Len(OriginalKids) :
                  IsEncrypted(OriginalKids[i]) =>
                      \E j \in 1..Len(el.kids) :
                          \/ el.kids[j] = Plain(OriginalKids[i])
                          \/ el.kids[j] = Validate(Plain(OriginalKids[i])).el
    /\ Succeeded =>
            /\ \A i \in 1..Len(result.resp.Assertions) :
                  ~IsEncrypted(result.resp.Assertions[i])
            /\ \A i \in 1..Len(OriginalKids) :
                  IsEncrypted(OriginalKids[i]) =>
                      \E j \in 1..Len(result.resp.Assertions) :
                          /\ result.resp.Assertions[j].id = OriginalKids[i].id
                          /\ result.resp.Assertions[j].st
                                \in {"decrypted", "validated"}

\* A successful call that returns an assertion taken from a decrypted
\* plaintext.
C8_Witness ==
    /\ Succeeded
    /\ \E i \in 1..Len(OriginalKids) : IsEncrypted(OriginalKids[i])
    /\ \E j \in 1..Len(result.resp.Assertions) :
          result.resp.Assertions[j].st = "decrypted"

\* The call ran the flate fallback.
Inflated == \E i \in 1..Len(log) : log[i].op = "Inflate"

\* The bytes parse as XML, directly or once inflated, to a document
\* without a root element.
ParsesWithoutRoot(raw) ==
    \/ raw.kind = "xml" /\ raw.doc.isNil
    \/ raw.kind = "deflate" /\ raw.body.kind = "xml" /\ raw.body.doc.isNil

\* C9: the call fails with a decode error and no typed response when the
\* input is not base64, or when the bytes do not parse and inflating them
\* fails or the inflated bytes do not parse; the fallback runs only after
\* the direct parse failed; a parsed document without a root element fails
\* with "unable to parse response".
C9_DecodeErrors ==
    pc # "decode" =>
        LET raw == encodedResponse.raw
        IN /\ ~encodedResponse.b64 =>
                 /\ FailedWith(Err("base64.CorruptInputError"))
                 /\ ~Inflated
           /\ (encodedResponse.b64 /\ raw.kind = "garbage") =>
                 FailedWith(Err("flate.CorruptInputError"))
           /\ (encodedResponse.b64 /\ raw.kind = "deflate"
                 /\ raw.body.kind # "xml") =>
                 FailedWith(Err("etree: invalid XML format"))
           /\ Inflated <=> (encodedResponse.b64 /\ raw.kind # "xml")
           /\ (encodedResponse.b64 /\ ParsesWithoutRoot(raw)) =>
                 FailedWith(Err("unable to parse response"))
           /\ (~encodedResponse.b64 \/ raw.kind = "garbage"
                 \/ ParsesWithoutRoot(raw)) => last = "Decode"

\* An inflated document without a root element, rejected.
C9_Witness ==
    /\ FailedWith(Err("unable to parse response"))
    /\ Inflated
    /\ last = "Decode"

\* C10: a response whose Destination differs from the configured endpoint
\* fails validation whatever its signatures, one whose Version is not
\* "2.0" is rejected as unsupported, the attribute checks pass exactly when
\* both match, and the destination is reported first when both differ.
C10_AttributeChecks ==
    (pc = "done" /\ last = "ValidateDecoded") =>
        LET r == decodedResponse
            destOk == r.Destination = sp.AssertionConsumerServiceURL
            versionOk == r.Version = "2.0"
        IN /\ ~destOk =>
                 FailedWith(ErrInvalidValue(DestinationAttr, "",
                                            sp.AssertionConsumerServiceURL,
                                            r.Destination))
           /\ (destOk /\ ~versionOk) =>
                 FailedWith(ErrInvalidValue("SAML version", ReasonUnsupported,
                                            "2.0", r.Version))
           /\ (destOk /\ versionOk) <=> result.err.msg # "ErrInvalidValue"
           /\ Succeeded => (destOk /\ versionOk)

\* A response with every signature valid, a foreign Destination and an
\* unsupported Version, rejected for its Destination.
C10_Witness ==
    /\ pc = "done"
    /\ last = "ValidateDecoded"
    /\ result.err.msg = "ErrInvalidValue"
    /\ result.err.Key = DestinationAttr
    /\ decodedResponse.Version # "2.0"
    /\ Checking
    /\ responseSignatureValidated
    /\ signedAssertions >= 1

\* The root of the decoded document, before validation.
OriginalRoot == DecodeDocument(encodedResponse).el

\* The working root is the element x, whatever was done to its children.
WorkingRootIs(x) == ~el.isNil /\ [el EXCEPT !.kids = x.kids] = x

\* C14: with checking enabled, once the root validation step has run,
\* responseSignatureValidated is true exactly if the validator returned an
\* element and no error for the root; from then on the working root is the
\* element the validator returned when the flag is true and the original root
\* when the validator reported a missing signature; when the validator
\* returned neither element nor error the call has failed with "missing
\* transformed response".
C14_RootValidation ==
    (Checking /\ last \notin {"none", "Decode"}) =>
        LET v == Validate(OriginalRoot)
        IN /\ responseSignatureValidated <=> (v.err = NoErr /\ ~v.el.isNil)
           /\ responseSignatureValidated => WorkingRootIs(v.el)
           /\ v.err = ErrMissingSignature => WorkingRootIs(OriginalRoot)
           /\ (v.err = NoErr /\ v.el.isNil) =>
                 /\ FailedWith(Err("missing transformed response"))
                 /\ last = "ValidateRoot"
           /\ v.err \notin {NoErr, ErrMissingSignature} =>
                 FailedWith(v.err) /\ last = "ValidateRoot"

\* C14 witness: a later step works on the validated root after an assertion
\* was replaced in it.
C14_Witness ==
    /\ Checking
    /\ responseSignatureValidated
    /\ pc = "validate"
    /\ WorkingRootIs(Validate(OriginalRoot).el)
    /\ el.kids # OriginalRoot.kids

\* An element with the tag EncryptedAssertion is in kids or nested in one
\* of them.
HasEncrypted(kids) == Found(kids, EncryptedAssertionTag) # <<>>

\* The validator was called on an assertion, as the i-th call of the log.
AssertionValidated(i) == log[i].op = "Validate" /\ log[i].id # 0

\* C12: with checking enabled, when the validator is called on an assertion
\* the handler decryptAssertion has returned nil for every EncryptedAssertion
\* of the response and runs no more; the enforcement pass starts on a tree
\* without encrypted elements and is handed the plaintext of each, and the
\* validator is never called on an encrypted element; once a decryption has
\* failed the enforcement pass never starts.
C12_DecryptThenEnforce ==
    Checking =>
        /\ \A i \in DOMAIN log :
              AssertionValidated(i) =>
                  /\ log[i].tag = AssertionTag
                  /\ \A j \in DOMAIN log :
                        log[j].op = "decryptAssertion" =>
                            j < i /\ log[j].res = "nil"
                  /\ \A k \in DOMAIN OriginalKids :
                        IsEncrypted(OriginalKids[k]) =>
                            \E j \in 1..(i - 1) :
                                /\ log[j].op = "decryptAssertion"
                                /\ log[j].id = OriginalKids[k].id
        /\ pc = "enforce" => ~HasEncrypted(el.kids)
        /\ (pc = "enforce" /\ last = "DecryptDone") =>
              \A k \in DOMAIN OriginalKids :
                  IsEncrypted(OriginalKids[k]) =>
                      \E w \in DOMAIN work :
                          work[w] = [direct |-> TRUE,
                                     node |-> Plain(OriginalKids[k])]
        /\ (\E j \in DOMAIN log :
                log[j].op = "decryptAssertion" /\ log[j].res # "nil") =>
              /\ pc \in {"done", "panic"}
              /\ last = "DecryptAssertion"
              /\ \A i \in DOMAIN log :
                    ~AssertionValidated(i) /\ log[i].op # "validateAssertion"

\* C12 witness: the validator is called on the plaintext of an encrypted
\* assertion, after two encrypted assertions were decrypted.
C12_Witness ==
    /\ Checking
    /\ \E i \in DOMAIN log :
          /\ AssertionValidated(i)
          /\ log[i].st = "decrypted"
          /\ \E j, k \in 1..(i - 1) :
                /\ j # k
                /\ log[j].op = "decryptAssertion"
                /\ log[k].op = "decryptAssertion"

\* The children of the response element when decryptAssertions has
\* returned nil: the children that were not encrypted, then the plaintexts.
DecryptedKids ==
    SelectSeq(OriginalKids, LAMBDA k : ~IsEncrypted(k)) \o Plains(OriginalKids)

IsAssertion(k) == k.tag = AssertionTag

\* The validated copy of each element of kids, in order.
ValidatedCopies(kids) == [i \in DOMAIN kids |-> Validate(kids[i]).el]

\* The number of calls of the handler validateAssertion on the element k.
Visits(k) ==
    Cardinality({i \in DOMAIN log : /\ log[i].op = "validateAssertion"
                                    /\ log[i].id = k.id
                                    /\ log[i].st = k.st})

\* The enforcement pass has handed every found assertion to the handler and
\* no handler call has failed.
EnforcementPassed ==
    /\ Checking
    /\ \/ pc = "enforce" /\ work = <<>>
       \/ last \in {"EnforceDone", "Unmarshal", "ValidateDecoded"}

\* C15: when the enforcement pass has visited every assertion without a
\* failure, each assertion without a signature is the element it was, where
\* it was, each assertion that validated has been removed and its validated
\* copy appended to the response element, every assertion was visited once,
\* the two counters are the numbers of the two kinds and add up to the
\* number of assertions, which is the number of Assertion children before and
\* after the pass.
C15_EnforcementFrame ==
    /\ (Checking /\ pc = "enforce" /\ last = "DecryptDone") =>
          el.kids = DecryptedKids
    /\ EnforcementPassed =>
          LET assertions == SelectSeq(DecryptedKids, IsAssertion)
              valid == SelectSeq(assertions, LAMBDA k : k.sig = "valid")
              unsigned == SelectSeq(assertions, LAMBDA k : k.sig = "missing")
          IN /\ el.kids =
                    SelectSeq(DecryptedKids,
                              LAMBDA k : ~(IsAssertion(k) /\ k.sig = "valid"))
                    \o ValidatedCopies(valid)
             /\ signedAssertions = Len(valid)
             /\ unsignedAssertions = Len(unsigned)
             /\ signedAssertions + unsignedAssertions = Len(assertions)
             /\ \A i \in DOMAIN assertions : Visits(assertions[i]) = 1
             /\ Len(SelectSeq(el.kids, IsAssertion)) = Len(assertions)

\* C15 witness: a pass over a validly signed assertion followed by another
\* child has ended in the signed-only verdict, the copy now last.
C15_Witness ==
    /\ EnforcementPassed
    /\ signedAssertions = 1
    /\ unsignedAssertions = 0
    /\ Len(el.kids) = 2
    /\ IsAssertion(DecryptedKids[1])
    /\ el.kids[2] = Validate(DecryptedKids[1]).el
    /\ el.kids[1] = DecryptedKids[2]

\* An element as it would be had nobody signed it: the validator would
\* report a missing signature for it and for its plaintext.
Unsigned(x) ==
    [x EXCEPT !.sig = "missing", !.plain = IF @ = "na" THEN @ ELSE "missing"]

UnsignedRoot(root) ==
    IF root.isNil THEN root
    ELSE [root EXCEPT !.sig = "missing",
                      !.kids = [i \in DOMAIN @ |-> Unsigned(@[i])]]

UnsignedItems(items) ==
    [i \in DOMAIN items |-> [items[i] EXCEPT !.node = Unsigned(@)]]

UnsignedBytes(raw) ==
    CASE raw.kind = "xml" -> [raw EXCEPT !.doc = UnsignedRoot(@)]
      [] raw.kind = "deflate" /\ raw.body.kind = "xml" ->
            [raw EXCEPT !.body.doc = UnsignedRoot(@)]
      [] OTHER -> raw

\* The step the skipping call is about to take does to the state without
\* signatures what it does to the state, up to signatures.
StepBlindToSignatures ==
    /\ pc = "decode" =>
          LET d == DecodeDocument(encodedResponse)
              u == DecodeDocument([encodedResponse EXCEPT
                                      !.raw = UnsignedBytes(@)])
          IN d.err = u.err /\ UnsignedRoot(d.el) = u.el
    /\ pc = "rootsig" =>
          LET r == ValidateRootStep(sp, el)
              u == ValidateRootStep(sp, UnsignedRoot(el))
          IN /\ r.err = u.err
             /\ UnsignedRoot(r.el) = u.el
             /\ r.validated = u.validated
             /\ UnsignedItems(Found(r.el.kids, EncryptedAssertionTag))
                    = Found(u.el.kids, EncryptedAssertionTag)
    /\ (pc = "decrypt" /\ work # <<>>) =>
          LET d == decryptAssertion(sp, el, decryptCert, Head(work))
              u == decryptAssertion(sp, UnsignedRoot(el), decryptCert,
                                    UnsignedItems(work)[1])
          IN /\ d.err = u.err
             /\ d.panic = u.panic
             /\ d.cert = u.cert
             /\ UnsignedRoot(d.el) = u.el
    /\ pc = "unmarshal" =>
          xmlUnmarshalElement(el).err = xmlUnmarshalElement(UnsignedRoot(el)).err
    /\ pc = "validate" =>
          ValidateResponse(sp, decodedResponse)
              = ValidateResponse(sp, xmlUnmarshalElement(UnsignedRoot(el)).resp)

\* C16: a call that skips signature validation never calls the validator,
\* on the root or on an assertion, never enters the enforcement pass and
\* never returns one of its verdicts; it goes from the envelope to the
\* decryption pass, the unmarshalling and the semantic validation, any of
\* which can end it; and each of its steps does the same with and without
\* signatures in the response, so that the error or success it ends in does
\* not depend on them.
C16_SkipValidation ==
    sp.SkipSignatureValidation =>
        /\ \A i \in DOMAIN log :
              log[i].op \notin {"Validate", "validateAssertion"}
        /\ pc # "enforce"
        /\ last \notin {"ValidateAssertion", "EnforceDone"}
        /\ ~responseSignatureValidated
        /\ result.err \notin {MixedErr, MustBeSigned, ErrMissingSignature,
                               ErrInvalidSignature,
                               Err("missing transformed response")}
        /\ pc = "done" =>
              last \in {"Decode", "DecryptAssertion", "Unmarshal",
                        "ValidateDecoded"}
        /\ Succeeded => last = "ValidateDecoded"
        /\ last = "DecryptDone" => pc = "unmarshal"
        /\ StepBlindToSignatures

\* C16 witness: a skipping call returns the typed response of a response
\* whose envelope and only assertion carry invalid signatures, after
\* decrypting an assertion.
C16_Witness ==
    /\ sp.SkipSignatureValidation
    /\ Succeeded
    /\ el.sig = "invalid"
    /\ \E i \in DOMAIN el.kids : el.kids[i].sig = "invalid"
    /\ \E i \in DOMAIN log :
          log[i].op = "decryptAssertion" /\ log[i].res = "nil"

\* The error value produced by the step that was taken last, as that step
\* returned it to ValidateEncodedResponse (a step that fails leaves the
\* state it read as it was).
ProducedErr ==
    CASE last = "Decode" -> DecodeDocument(encodedResponse).err
      [] last = "ValidateRoot" -> validateElementSignature(el).err
      [] last = "DecryptAssertion" ->
            decryptAssertion(sp, el, decryptCert, Head(work)).err
      [] last = "ValidateAssertion" ->
            validateAssertion(el, signedAssertions, unsignedAssertions,
                              Head(work)).err
      [] last = "EnforceDone" ->
            EnforcementResult(signedAssertions, unsignedAssertions)
      [] last = "Unmarshal" -> xmlUnmarshalElement(el).err
      [] last = "ValidateDecoded" -> ValidateResponse(sp, decodedResponse)
      [] OTHER -> NoErr

\* The call returned because a step produced an error other than a missing
\* signature.
StepFailed ==
    /\ pc = "done"
    /\ result.err # NoErr
    /\ ProducedErr \notin {NoErr, ErrMissingSignature}

\* C17 as stated: whenever a step produces an error other than a missing
\* signature, the error the call returns is that error value.
C17_Original == StepFailed => result.err = ProducedErr

\* C17: a missing signature is the one error a step can produce without
\* ending the call, and when it ends the call it is as the error "response
\* and/or assertions must be signed" after the enforcement pass; every other
\* error a step produces ends the call and is the error returned, except the
\* error of the unmarshalling, in place of which the call returns a new error
\* "unable to unmarshal response" that describes it.
C17_ErrorsPassedThrough ==
    /\ (StepFailed /\ last # "Unmarshal") => result.err = ProducedErr
    /\ (StepFailed /\ last = "Unmarshal") =>
          /\ result.err = Err("unable to unmarshal response")
          /\ result.err # ProducedErr
    /\ (pc = "done" /\ ProducedErr = ErrMissingSignature) =>
          /\ last = "EnforceDone"
          /\ ~responseSignatureValidated
          /\ result.err = MustBeSigned
    /\ \A i \in DOMAIN log :
          (/\ \/ log[i].op \in {"Inflate", "decryptAssertion", "validateAssertion"}
              \/ log[i].op = "Validate" /\ log[i].id = 0
           /\ log[i].res \notin {NoErr.msg, ErrMissingSignature.msg}) =>
              i = Len(log) /\ pc \in {"done", "panic"}

\* C17 witness: with the envelope validated and the assertions unsigned the
\* missing signature is tolerated, and the call then fails in the
\* unmarshalling.
C17_Witness ==
    /\ StepFailed
    /\ last = "Unmarshal"
    /\ responseSignatureValidated
    /\ unsignedAssertions > 0

\* What the handlers log when a removal finds nothing to remove.
RemovalPanics ==
    {"panic: unable to remove encrypted assertion",
     "panic: unable to remove assertion"}

\* The i-th call of the log is a handler call that ended in such a panic.
RemovalPanicked(i) ==
    /\ log[i].op \in {"decryptAssertion", "validateAssertion"}
    /\ log[i].res \in RemovalPanics

\* A pass of one of the two handlers is under way.
InPass == pc \in {"decrypt", "enforce"}

\* C19: no handler call ends in the panic of a removal that found nothing:
\* during either pass the elements still to be handed to the handler are
\* pairwise different, each one whose parent is the response element is
\* still a child of it whatever the earlier handler calls removed and
\* appended, a handler call that went on to the replacement was for an
\* element that passed the parent check, and no element is handed to the
\* same handler twice.
C19_NoRemovalPanic ==
    /\ \A i \in DOMAIN log : ~RemovalPanicked(i)
    /\ InPass =>
          /\ \A i, j \in DOMAIN work : i # j => work[i] # work[j]
          /\ \A i \in DOMAIN work :
                work[i].direct => RemoveChild(el.kids, work[i].node).found
    /\ \A i \in DOMAIN log :
          (/\ log[i].op \in {"decryptAssertion", "validateAssertion"}
           /\ log[i].res = NoErr.msg) => log[i].direct
    /\ \A i, j \in DOMAIN log :
          (/\ i # j
           /\ log[i].op \in {"decryptAssertion", "validateAssertion"}
           /\ log[i].op = log[j].op) =>
              <<log[i].id, log[i].st>> # <<log[j].id, log[j].st>>

\* C19 witness: the enforcement pass has replaced one assertion by its
\* validated copy and is about to hand the next validly signed child to the
\* handler, which will remove it.
C19_Witness ==
    /\ pc = "enforce"
    /\ signedAssertions = 1
    /\ work # <<>>
    /\ Head(work).direct
    /\ Head(work).node.sig = "valid"
    /\ Head(work).node.detach
    /\ RemoveChild(el.kids, Head(work).node).found
    /\ el.kids[Len(el.kids)].st = "validated"

----------------------------------------------------------------------------
(* Two calls with the same configuration and argument (SpecTwice).         *)

\* The call under way is the second one and has ended.
SecondEnded == first # NoOutcome /\ pc \in {"done", "panic"}

Fetches == {i \in DOMAIN log : log[i].op = "getDecryptCert"}

\* The call under way has entered decryptAssertions.
DecryptEntered == last \notin {"none", "Decode"}

\* C13: a call resolves the decryption certificate at most once however
\* many encrypted assertions it decrypts, and only for an EncryptedAssertion
\* child of the response, so that a call fails for want of a certificate
\* only if there is one; a certificate in use was resolved by the call that
\* uses it, a later call resolving it again.
C13_CertResolvedOnce ==
    /\ Cardinality(Fetches) <= 1
    /\ \A i \in Fetches :
          \E k \in DOMAIN OriginalKids :
              /\ IsEncrypted(OriginalKids[k])
              /\ OriginalKids[k].id = log[i].id
    /\ FailedWith(Err("unable to get decryption certificate")) =>
          /\ Fetches # {}
          /\ \E k \in DOMAIN OriginalKids : IsEncrypted(OriginalKids[k])
    /\ (DecryptEntered /\ decryptCert # "nil") => Fetches # {}
    /\ \A j \in DOMAIN log :
          (log[j].op = "decryptAssertion" /\ log[j].res = "nil") =>
              \E i \in Fetches : i < j /\ log[i].res = "nil"

\* C13 witness: a second call has decrypted two encrypted assertions and
\* resolved the certificate once.
C13_Witness ==
    /\ first # NoOutcome
    /\ Cardinality(Fetches) = 1
    /\ \E j, k \in DOMAIN log :
          /\ j # k
          /\ log[j].op = "decryptAssertion" /\ log[j].res = "nil"
          /\ log[k].op = "decryptAssertion" /\ log[k].res = "nil"

----------------------------------------------------------------------------
(* The handlers on an element that is not a child (SpecDefect).            *)

\* What the handler of the pass under way would do with the next element.
NextHandlerCall ==
    IF pc = "decrypt"
    THEN decryptAssertion(sp, el, decryptCert, Head(work))
    ELSE validateAssertion(el, signedAssertions, unsignedAssertions, Head(work))

\* C18: a handler call whose removal finds nothing to remove panics: the
\* call of ValidateEncodedResponse ends there, having returned neither an
\* error nor a typed response, and the replacement is not among the children
\* of the response element; a handler handed an element that is not a child
\* either fails before the removal, or counts it as unsigned, or panics, and
\* in no case inserts anything.
C18_RemovalPanics ==
    /\ \A i \in DOMAIN log :
          RemovalPanicked(i) =>
              /\ i = Len(log)
              /\ pc = "panic"
              /\ result = NoResult
              /\ decodedResponse = NilResponse
              /\ \A k \in DOMAIN el.kids : el.kids[k].id # log[i].id
    /\ (InPass /\ last = "Detached") =>
          LET h == NextHandlerCall
          IN /\ h.el = el
             /\ \/ h.panic /\ h.err = NoErr /\ h.why.msg \in RemovalPanics
                \/ ~h.panic /\ h.err # NoErr
                \/ /\ ~h.panic
                   /\ pc = "enforce"
                   /\ h.unsigned = unsignedAssertions + 1
                   /\ Validate(Head(work).node).err = ErrMissingSignature
    /\ pc = "panic" => ~result.returned

\* C18 witness: the enforcement pass has validated an assertion that was no
\* longer a child of the response element, and has panicked.
C18_Witness ==
    /\ pc = "panic"
    /\ log # <<>>
    /\ log[Len(log)].op = "validateAssertion"
    /\ log[Len(log)].res = "panic: unable to remove assertion"
    /\ log[Len(log) - 1].op = "Validate"
    /\ log[Len(log) - 1].res = NoErr.msg

====
